---- MODULE Spec2Model ----
(***************************************************************************)
(* Model of the Vulkan memory sub-allocator of the engine crate            *)
(* (engine/src/vk_util/alloc.rs): padding, VkMemory (one backing           *)
(* allocation and its free-region list), VkMemoryManager (all VkMemory of  *)
(* one memory type) and VkAllocator (the device and the host manager).     *)
(***************************************************************************)
EXTENDS Integers, Sequences, FiniteSets, TLC

\* ------------------------------------------------------------ bounds

\* Small request sizes are 1..MaxSmall.
MaxSmall == 1
\* Near-full request sizes are min_vk_mem_size - k for k in 2..MaxSlack.
MaxSlack == 3
\* Request alignments are 0 and the powers of two 2^1..2^MaxAlignExp.
MaxAlignExp == 1
\* Blocks granted over the life of one allocator.
MaxAllocs == 4
\* Blocks callers hold at the same time.
MaxHeld == 3
\* vkAllocateMemory succeeds at most this many times (the platform's allocation count limit).
MaxMems == 2
\* Memory types of a table given to VkAllocator::new (SpecNew).
MaxTypes == 3
\* Blocks granted over the life of one allocator in SpecNew.
MaxAllocsNew == 2
\* Addresses given to padding are 0..MaxPadAddr (SpecPadding).
MaxPadAddr == 24
\* Alignments given to padding are 0..MaxPadAlign (SpecPadding).
MaxPadAlign == 9
\* frames_in_flight of a FrameQueue is 1..MaxFramesInFlight (SpecFrames).
MaxFramesInFlight == 3
\* A swapchain has at most MaxSwapImages images (SpecFrames).
MaxSwapImages == 5

\* ------------------------------------------------------------ program constants

MIN_DEVICE_VK_MEM_SIZE == 16 * 1024 * 1024
MIN_HOST_VK_MEM_SIZE == 4 * 1024 * 1024

\* Option<T>
None == [tag |-> "None"]
Some(x) == [tag |-> "Some", val |-> x]

\* enum MemoryType
MemoryType == {"Device", "Host"}

\* vk::MemoryPropertyFlags, as sets of flag names
DEVICE_LOCAL == {"DEVICE_LOCAL"}
HOST_VISIBLE == {"HOST_VISIBLE"}
HOST_CACHED == {"HOST_CACHED"}
HOST_COHERENT == {"HOST_COHERENT"}

Min(S) == CHOOSE x \in S : \A y \in S : x <= y
Max2_first(a, b) == a
Max2(a, b) == IF a >= b THEN a ELSE b

\* ------------------------------------------------------------ padding

padding_no_outer_mod(addr, alignment) ==
    IF alignment # 0 THEN alignment - (addr % alignment) ELSE 0

padding(addr, alignment) ==
    IF alignment # 0 THEN (alignment - (addr % alignment)) % alignment ELSE 0

\* ------------------------------------------------------------ records

MemoryRegion(offset, size) == [offset |-> offset, size |-> size]

BlockSource_first_vk_mem(mem_type, idx) == [mem_type |-> mem_type, idx |-> 0]

BlockSource(mem_type, idx) == [mem_type |-> mem_type, idx |-> idx]

\* A mapped pointer: the mapping of allocation mem, advanced by addr bytes.
Ptr(mem, addr) == [mem |-> mem, addr |-> addr]

PtrOffset_not_advanced(ptr, count) == ptr

PtrOffset(ptr, count) == Ptr(ptr.mem, ptr.addr + count)

\* MemoryBlock; req is the request the block was granted for (not a field of
\* the struct: the caller knows what it asked for).
MemoryBlock(mem, region, ptr, source, req) ==
    [mem |-> mem, region |-> region, ptr |-> ptr, source |-> source, req |-> req]

\* MemoryBlock::offset
MemoryBlock_offset(block) == block.region.offset

\* MemoryBlock::ptr
MemoryBlock_ptr(block) == block.ptr

VkMemory_without_base_ptr(mem, free_regions, base_ptr) ==
    [mem |-> mem, free_regions |-> free_regions, base_ptr |-> None]

VkMemory(mem, free_regions, base_ptr) ==
    [mem |-> mem, free_regions |-> free_regions, base_ptr |-> base_ptr]

\* ------------------------------------------------------------ VkMemory

FindFit_tightest(free_regions, req) ==
    LET fits == {i \in 1..Len(free_regions) :
                    req.size + padding(free_regions[i].offset, req.alignment)
                        <= free_regions[i].size}
    IN  IF fits = {} THEN 0
        ELSE CHOOSE i \in fits :
                 \A j \in fits :
                     \/ free_regions[i].size < free_regions[j].size
                     \/ (free_regions[i].size = free_regions[j].size /\ i <= j)

\* Index of the first free region the request fits in, 0 when there is none.
FindFit(free_regions, req) ==
    LET fits == {i \in 1..Len(free_regions) :
                    req.size + padding(free_regions[i].offset, req.alignment)
                        <= free_regions[i].size}
    IN  IF fits = {} THEN 0 ELSE Min(fits)

RemoveAt(s, i) == SubSeq(s, 1, i - 1) \o SubSeq(s, i + 1, Len(s))

InsertAt(s, i, e) == SubSeq(s, 1, i - 1) \o <<e>> \o SubSeq(s, i, Len(s))

CarvedRegion_at_region_start(region, req) ==
    MemoryRegion(region.offset, req.size + padding(region.offset, req.alignment))

CarvedRegion_requested_size(region, req) ==
    MemoryRegion(region.offset + padding(region.offset, req.alignment), req.size)

\* The region MemoryBlock records for a request carved from a free region.
CarvedRegion(region, req) ==
    LET pad == padding(region.offset, req.alignment)
        padded_size == req.size + pad
    IN  MemoryRegion(region.offset + pad, padded_size)

ConsumeRegion_never_removes(free_regions, i, req) ==
    LET region == free_regions[i]
        padded_size == req.size + padding(region.offset, req.alignment)
    IN  [free_regions EXCEPT
            ![i] = MemoryRegion(region.offset + padded_size, region.size - padded_size)]

\* The free list after the request took free region i.
ConsumeRegion(free_regions, i, req) ==
    LET region == free_regions[i]
        padded_size == req.size + padding(region.offset, req.alignment)
    IN  IF padded_size = region.size
        THEN RemoveAt(free_regions, i)
        ELSE [free_regions EXCEPT
                 ![i] = MemoryRegion(region.offset + padded_size, region.size - padded_size)]

\* VkMemory::alloc: [block |-> Option<MemoryBlock>, vk_mem |-> the VkMemory afterwards]
VkMemory_alloc(vk_mem, req, mem_type, idx) ==
    LET i == FindFit(vk_mem.free_regions, req)
    IN  IF i = 0
        THEN [block |-> None, vk_mem |-> vk_mem]
        ELSE LET region == vk_mem.free_regions[i]
                 pad == padding(region.offset, req.alignment)
                 ptr == IF vk_mem.base_ptr = None
                        THEN None
                        ELSE Some(PtrOffset(vk_mem.base_ptr.val, region.offset + pad))
             IN  [block |-> Some(MemoryBlock(vk_mem.mem, CarvedRegion(region, req), ptr,
                                             BlockSource(mem_type, idx), req)),
                  vk_mem |-> [vk_mem EXCEPT
                                 !.free_regions = ConsumeRegion(vk_mem.free_regions, i, req)]]

\* Index of the first free region located at or after end_addr, 0 when there is none.
FindFollowing(free_regions, end_addr) ==
    LET following == {i \in 1..Len(free_regions) : free_regions[i].offset >= end_addr}
    IN  IF following = {} THEN 0 ELSE Min(following)

VkMemory_free_drops_last(free_regions, returning_region) ==
    LET end_addr == returning_region.offset + returning_region.size
        i == FindFollowing(free_regions, end_addr)
    IN  IF i # 0
        THEN IF end_addr = free_regions[i].offset
             THEN [free_regions EXCEPT
                      ![i] = MemoryRegion(free_regions[i].offset - returning_region.size,
                                          free_regions[i].size + returning_region.size)]
             ELSE InsertAt(free_regions, i, returning_region)
        ELSE free_regions

VkMemory_free_merge_backward(free_regions, returning_region) ==
    LET preceding == {j \in 1..Len(free_regions) :
                         free_regions[j].offset + free_regions[j].size
                             = returning_region.offset}
    IN  IF preceding # {}
        THEN [free_regions EXCEPT
                 ![Min(preceding)].size = @ + returning_region.size]
        ELSE Append(free_regions, returning_region)

VkMemory_free_no_merge(free_regions, returning_region) ==
    LET end_addr == returning_region.offset + returning_region.size
        i == FindFollowing(free_regions, end_addr)
    IN  IF i # 0 THEN InsertAt(free_regions, i, returning_region)
        ELSE Append(free_regions, returning_region)

VkMemory_free_merge_moves_only(free_regions, returning_region) ==
    LET end_addr == returning_region.offset + returning_region.size
        i == FindFollowing(free_regions, end_addr)
    IN  IF i # 0
        THEN IF end_addr = free_regions[i].offset
             THEN [free_regions EXCEPT
                      ![i] = MemoryRegion(free_regions[i].offset - returning_region.size,
                                          free_regions[i].size)]
             ELSE InsertAt(free_regions, i, returning_region)
        ELSE Append(free_regions, returning_region)

\* VkMemory::free, on the free list
VkMemory_free(free_regions, returning_region) ==
    LET end_addr == returning_region.offset + returning_region.size
        i == FindFollowing(free_regions, end_addr)
    IN  IF i # 0
        THEN IF end_addr = free_regions[i].offset
             THEN [free_regions EXCEPT
                      ![i] = MemoryRegion(free_regions[i].offset - returning_region.size,
                                          free_regions[i].size + returning_region.size)]
             ELSE InsertAt(free_regions, i, returning_region)
        ELSE Append(free_regions, returning_region)

\* ------------------------------------------------------------ the device

\* vkAllocateMemory succeeded: a new VkDeviceMemory, whose handle is its index.
allocate_memory(dev, allocation_size, memory_type_index) ==
    Append(dev, [allocation_size |-> allocation_size,
                 memory_type_index |-> memory_type_index,
                 mapped |-> FALSE, freed |-> 0])

\* vkMapMemory succeeded: the whole allocation is mapped, the pointer is its start.
map_memory(dev, mem) == [dev EXCEPT ![mem].mapped = TRUE]

\* vkFreeMemory
free_memory(dev, mem) == [dev EXCEPT ![mem].freed = @ + 1]

\* ------------------------------------------------------------ VkMemoryManager

Ok(v) == [tag |-> "Ok", val |-> v]
Err(msg) == [tag |-> "Err", msg |-> msg]

FirstVkMem_newest(vk_mems, req, mem_type) ==
    LET ok == {k \in 1..Len(vk_mems) :
                  VkMemory_alloc(vk_mems[k], req, mem_type, k - 1).block # None}
    IN  IF ok = {} THEN 0 ELSE CHOOSE k \in ok : \A j \in ok : j <= k

\* Index (1-based) of the first VkMemory whose alloc succeeds, 0 when none does.
FirstVkMem(vk_mems, req, mem_type) ==
    LET ok == {k \in 1..Len(vk_mems) :
                  VkMemory_alloc(vk_mems[k], req, mem_type, k - 1).block # None}
    IN  IF ok = {} THEN 0 ELSE Min(ok)

InitialFreeRegions_always_one(req_size, min_vk_mem_size) ==
    <<MemoryRegion(req_size, min_vk_mem_size - req_size)>>

\* The free list of a VkMemory created for a request of req_size.
InitialFreeRegions(req_size, min_vk_mem_size) ==
    IF req_size >= min_vk_mem_size
    THEN <<>>
    ELSE <<MemoryRegion(req_size, min_vk_mem_size - req_size)>>

VkMemoryManager_alloc_retries(mgr, dev, req, alloc_ok, map_ok) ==
    LET k == FirstVkMem(mgr.vk_mems, req, mgr.mem_type)
    IN  IF k # 0
        THEN LET r == VkMemory_alloc(mgr.vk_mems[k], req, mgr.mem_type, k - 1)
             IN  [result |-> Ok(r.block.val),
                  mgr |-> [mgr EXCEPT !.vk_mems[k] = r.vk_mem],
                  device |-> dev, attempts |-> 0]
        ELSE LET alloc_size == Max2(req.size, mgr.min_vk_mem_size)
                 dev1 == allocate_memory(dev, alloc_size, mgr.mem_type_idx)
                 mem == Len(dev1)
                 base_ptr == IF mgr.should_map THEN Some(Ptr(mem, 0)) ELSE None
                 block == MemoryBlock(mem, MemoryRegion(0, req.size), base_ptr,
                                      BlockSource(mgr.mem_type, Len(mgr.vk_mems)), req)
                 free_regions == InitialFreeRegions(req.size, mgr.min_vk_mem_size)
             IN  IF mgr.should_map /\ ~map_ok
                 THEN [result |-> Err("Failed to map memory"),
                       mgr |-> mgr, device |-> dev1, attempts |-> 1]
                 ELSE [result |-> Ok(block),
                       mgr |-> [mgr EXCEPT
                                   !.vk_mems = Append(@, VkMemory(mem, free_regions, base_ptr))],
                       device |-> IF mgr.should_map THEN map_memory(dev1, mem) ELSE dev1,
                       attempts |-> IF alloc_ok THEN 1 ELSE 2]

\* VkMemoryManager::alloc.  alloc_ok and map_ok are the platform's answers to
\* allocate_memory and map_memory, should they be called.
\* [result |-> Ok(block) or Err, mgr, device |-> afterwards, attempts |-> calls of allocate_memory]
VkMemoryManager_alloc(mgr, dev, req, alloc_ok, map_ok) ==
    LET k == FirstVkMem(mgr.vk_mems, req, mgr.mem_type)
    IN  IF k # 0
        THEN LET r == VkMemory_alloc(mgr.vk_mems[k], req, mgr.mem_type, k - 1)
             IN  [result |-> Ok(r.block.val),
                  mgr |-> [mgr EXCEPT !.vk_mems[k] = r.vk_mem],
                  device |-> dev, attempts |-> 0]
        ELSE LET alloc_size == Max2(req.size, mgr.min_vk_mem_size)
                 dev1 == allocate_memory(dev, alloc_size, mgr.mem_type_idx)
                 mem == Len(dev1)
                 dev2 == map_memory(dev1, mem)
                 base_ptr == IF mgr.should_map THEN Some(Ptr(mem, 0)) ELSE None
                 block == MemoryBlock(mem, MemoryRegion(0, req.size), base_ptr,
                                      BlockSource(mgr.mem_type, Len(mgr.vk_mems)), req)
                 free_regions == InitialFreeRegions(req.size, mgr.min_vk_mem_size)
             IN  IF ~alloc_ok
                 THEN [result |-> Err("Failed to allocate VkMemory"),
                       mgr |-> mgr, device |-> dev, attempts |-> 1]
                 ELSE IF mgr.should_map /\ ~map_ok
                 THEN [result |-> Err("Failed to map memory"),
                       mgr |-> mgr, device |-> dev1, attempts |-> 1]
                 ELSE [result |-> Ok(block),
                       mgr |-> [mgr EXCEPT
                                   !.vk_mems = Append(@, VkMemory(mem, free_regions, base_ptr))],
                       device |-> IF mgr.should_map THEN dev2 ELSE dev1,
                       attempts |-> 1]

VkMemoryManager_free_pops_vk_mem(mgr, block) ==
    IF block.source.idx + 1 = Len(mgr.vk_mems)
    THEN [mgr EXCEPT !.vk_mems = SubSeq(@, 1, Len(@) - 1)]
    ELSE [mgr EXCEPT !.vk_mems[block.source.idx + 1].free_regions =
                         VkMemory_free(@, block.region)]

VkMemoryManager_free_into_first(mgr, block) ==
    [mgr EXCEPT !.vk_mems[1].free_regions = VkMemory_free(@, block.region)]

\* VkMemoryManager::free
VkMemoryManager_free(mgr, block) ==
    [mgr EXCEPT !.vk_mems[block.source.idx + 1].free_regions =
                    VkMemory_free(@, block.region)]

RECURSIVE FreeAll(_, _)
FreeAll(dev, vk_mems) ==
    IF vk_mems = <<>> THEN dev
    ELSE FreeAll(free_memory(dev, Head(vk_mems).mem), Tail(vk_mems))

\* VkMemoryManager::destroy
VkMemoryManager_destroy(mgr, dev) == FreeAll(dev, mgr.vk_mems)

\* ------------------------------------------------------------ VkAllocator

find_memory_contains(mem_types, props) ==
    LET hits == {i \in 1..Len(mem_types) : props \subseteq mem_types[i]}
    IN  IF hits = {} THEN None ELSE Some(Min(hits) - 1)

find_memory_last_match(mem_types, props) ==
    LET hits == {i \in 1..Len(mem_types) : mem_types[i] = props}
    IN  IF hits = {} THEN None ELSE Some((CHOOSE i \in hits : \A j \in hits : j <= i) - 1)

\* find_memory: index (from 0) of the first memory type whose flags equal props.
find_memory(mem_types, props) ==
    LET hits == {i \in 1..Len(mem_types) : mem_types[i] = props}
    IN  IF hits = {} THEN None ELSE Some(Min(hits) - 1)

\* VkAllocator::new
VkAllocator_new(mem_types) ==
    LET device_mem_type_idx == find_memory(mem_types, DEVICE_LOCAL)
        host_mem_type_idx ==
            find_memory(mem_types, HOST_VISIBLE \cup HOST_CACHED \cup HOST_COHERENT)
    IN  IF device_mem_type_idx = None THEN Err("Failed to find device memory type")
        ELSE IF host_mem_type_idx = None THEN Err("Failed to find host memory type")
        ELSE Ok([device_mgr |-> [mem_type |-> "Device",
                                 mem_type_idx |-> device_mem_type_idx.val,
                                 should_map |-> FALSE,
                                 min_vk_mem_size |-> MIN_DEVICE_VK_MEM_SIZE,
                                 vk_mems |-> <<>>],
                 host_mgr |-> [mem_type |-> "Host",
                               mem_type_idx |-> host_mem_type_idx.val,
                               should_map |-> TRUE,
                               min_vk_mem_size |-> MIN_HOST_VK_MEM_SIZE,
                               vk_mems |-> <<>>]])

\* The manager a MemoryType routes to.
Mgr(a, mem_type) == IF mem_type = "Device" THEN a.device_mgr ELSE a.host_mgr

WithMgr(a, mem_type, mgr) ==
    IF mem_type = "Device" THEN [a EXCEPT !.device_mgr = mgr]
    ELSE [a EXCEPT !.host_mgr = mgr]

\* req.memory_type_bits & (1 << idx) != 0
BitSet(bits, idx) == (bits \div (2 ^ idx)) % 2 = 1

VkAllocator_alloc_unchecked(a, dev, req, mem_type, alloc_ok, map_ok) ==
    LET r == VkMemoryManager_alloc(Mgr(a, mem_type), dev, req, alloc_ok, map_ok)
    IN  [result |-> r.result, alloc |-> WithMgr(a, mem_type, r.mgr),
         device |-> r.device, attempts |-> r.attempts]

\* VkAllocator::alloc
VkAllocator_alloc(a, dev, req, mem_type, alloc_ok, map_ok) ==
    LET mgr == Mgr(a, mem_type)
    IN  IF ~BitSet(req.memory_type_bits, mgr.mem_type_idx)
        THEN [result |-> Err("This allocation cannot be done in this memory"),
              alloc |-> a, device |-> dev, attempts |-> 0]
        ELSE LET r == VkMemoryManager_alloc(mgr, dev, req, alloc_ok, map_ok)
             IN  [result |-> r.result, alloc |-> WithMgr(a, mem_type, r.mgr),
                  device |-> r.device, attempts |-> r.attempts]

\* VkAllocator::free
VkAllocator_free(a, block) ==
    WithMgr(a, block.source.mem_type,
            VkMemoryManager_free(Mgr(a, block.source.mem_type), block))

\* VkAllocator::destroy
VkAllocator_destroy(a, dev) ==
    VkMemoryManager_destroy(a.host_mgr, VkMemoryManager_destroy(a.device_mgr, dev))

\* ------------------------------------------------------------ state

VARIABLES
    mem_types,   \* PhysicalDeviceInfo::mem_props: the memory types' property flags
    vk_alloc,    \* Option<VkAllocator>: None when new failed, and after destroy
    device,      \* the VkDeviceMemory objects the device has allocated, by handle
    blocks,      \* every MemoryBlock granted so far, in order: Some(block) while
                 \* its caller holds it, None once free() has consumed it
    last,        \* the last call (see Call): what was called and what it returned
    frame_queue  \* Option<FrameQueue> of the common crate: None when there is none

vars == <<mem_types, vk_alloc, device, blocks, last, frame_queue>>

\* A usual table: device idx 0, host idx 2.
DefaultMemTypes ==
    << DEVICE_LOCAL,
       HOST_VISIBLE \cup HOST_COHERENT,
       HOST_VISIBLE \cup HOST_CACHED \cup HOST_COHERENT,
       DEVICE_LOCAL \cup HOST_VISIBLE \cup HOST_COHERENT >>

MinSize(mem_type) ==
    IF mem_type = "Device" THEN MIN_DEVICE_VK_MEM_SIZE ELSE MIN_HOST_VK_MEM_SIZE

\* Request sizes drawn by Alloc.  Of either memory type: small ones, and one larger
\* than a fresh VkMemory's minimum size.  Device: exactly the minimum size.
\* Host: sizes that nearly fill a fresh VkMemory.
ReqSizes(mem_type) ==
    (1..MaxSmall) \cup {MinSize(mem_type) + 1}
       \cup (IF mem_type = "Host"
             THEN {MinSize(mem_type) - k : k \in 2..MaxSlack}
             ELSE {MinSize(mem_type)})

Alignments == {0} \cup {2 ^ e : e \in 1..MaxAlignExp}

\* memory_type_bits of a resource that may live in one memory type only:
\* the first DEVICE_LOCAL one, or the first cached host one.
MemoryTypeBits == {2 ^ 0, 2 ^ 2}

MemoryRequirements(size, alignment, memory_type_bits) ==
    [size |-> size, alignment |-> alignment, memory_type_bits |-> memory_type_bits]

\* A call: what was called, the block given to free, the result of new and alloc,
\* how many times alloc called allocate_memory, and whether the call is an alloc
\* that repeats the request of the block freed by the call just before it.
Call(op, block, result, attempts, reuse) ==
    [op |-> op, block |-> block, result |-> result, attempts |-> attempts,
     reuse |-> reuse]

\* The blocks callers hold.
Held == {s \in 1..Len(blocks) : blocks[s] # None}

Init ==
    /\ mem_types = DefaultMemTypes
    /\ LET r == VkAllocator_new(mem_types)
       IN  /\ vk_alloc = IF r.tag = "Ok" THEN Some(r.val) ELSE None
           /\ last = Call("new", None, IF r.tag = "Ok" THEN Ok("VkAllocator") ELSE r, 0, FALSE)
    /\ device = <<>>
    /\ blocks = <<>>
    /\ frame_queue = None

\* What the platform answers when alloc calls allocate_memory and map_memory.
Platform == {"ok", "allocate_fails", "map_fails"}

\* alloc reaches allocate_memory: the type is compatible and no VkMemory fits.
NeedsVkMemory(req, mem_type) ==
    LET mgr == Mgr(vk_alloc.val, mem_type)
    IN  /\ BitSet(req.memory_type_bits, mgr.mem_type_idx)
        /\ FirstVkMem(mgr.vk_mems, req, mem_type) = 0

\* One call of VkAllocator::alloc; the caller keeps the block it gets.
AllocStep(req, mem_type, platform) ==
    LET r == VkAllocator_alloc(vk_alloc.val, device, req, mem_type,
                               platform # "allocate_fails", platform # "map_fails")
    IN  /\ vk_alloc' = Some(r.alloc)
        /\ device' = r.device
        /\ blocks' = IF r.result.tag = "Ok"
                     THEN Append(blocks, Some(r.result.val))
                     ELSE blocks
        /\ last' = Call("alloc", None, r.result, r.attempts,
                        /\ last.op = "free"
                        /\ last.block.val.req = req
                        /\ last.block.val.source.mem_type = mem_type)
        /\ UNCHANGED <<mem_types, frame_queue>>

\* The platform's answers: none are needed unless alloc reaches allocate_memory,
\* which fails once MaxMems allocations exist.
Answers(req, mem_type) ==
    IF ~NeedsVkMemory(req, mem_type) THEN {"ok"}
    ELSE IF Len(device) >= MaxMems THEN {"allocate_fails"}
    ELSE Platform

Alloc ==
    /\ vk_alloc # None
    /\ Len(blocks) < MaxAllocs
    /\ Cardinality(Held) < MaxHeld
    /\ \E mem_type \in MemoryType, alignment \in Alignments, bits \in MemoryTypeBits :
         \E size \in ReqSizes(mem_type) :
           LET req == MemoryRequirements(size, alignment, bits)
           IN  \E platform \in Answers(req, mem_type) :
                 AllocStep(req, mem_type, platform)

\* One call of VkAllocator::free on the block granted s-th, which its caller holds.
FreeStep(s) ==
    /\ vk_alloc' = Some(VkAllocator_free(vk_alloc.val, blocks[s].val))
    /\ blocks' = [blocks EXCEPT ![s] = None]
    /\ last' = Call("free", blocks[s], None, 0, FALSE)
    /\ UNCHANGED <<mem_types, device, frame_queue>>

Free ==
    /\ vk_alloc # None
    /\ \E s \in Held : FreeStep(s)

\* VkAllocator::destroy consumes the allocator.  Callers destroy it last, after
\* freeing every block (Renderer::destroy, and the contract of destroy).
Destroy ==
    /\ vk_alloc # None
    /\ Held = {}
    /\ device' = VkAllocator_destroy(vk_alloc.val, device)
    /\ vk_alloc' = None
    /\ last' = Call("destroy", None, None, 0, FALSE)
    /\ UNCHANGED <<mem_types, blocks, frame_queue>>

Next == Alloc \/ Free \/ Destroy

Spec == Init /\ [][Next]_vars

\* ------------------------------------------------------------ VkAllocator::new

\* The property flags a memory type of a table may have: the two sets new looks
\* for, a strict superset of each, a strict superset of both, and a strict subset
\* of the host one.
PropertyFlags ==
    { DEVICE_LOCAL,
      HOST_VISIBLE \cup HOST_CACHED \cup HOST_COHERENT,
      DEVICE_LOCAL \cup HOST_VISIBLE \cup HOST_COHERENT,
      DEVICE_LOCAL \cup HOST_VISIBLE \cup HOST_CACHED \cup HOST_COHERENT,
      HOST_VISIBLE \cup HOST_COHERENT }

\* The tables of at most MaxTypes memory types.
MemTypeTables == UNION {[1..n -> PropertyFlags] : n \in 0..MaxTypes}

\* VkAllocator::new on any of the tables.
InitNew ==
    /\ mem_types \in MemTypeTables
    /\ LET r == VkAllocator_new(mem_types)
       IN  /\ vk_alloc = IF r.tag = "Ok" THEN Some(r.val) ELSE None
           /\ last = Call("new", None, IF r.tag = "Ok" THEN Ok("VkAllocator") ELSE r, 0, FALSE)
    /\ device = <<>>
    /\ blocks = <<>>
    /\ frame_queue = None

\* alloc of a one-byte resource that may live in one memory type of the table.
AllocNew ==
    /\ vk_alloc # None
    /\ Len(blocks) < MaxAllocsNew
    /\ \E mem_type \in MemoryType, i \in 0..(Len(mem_types) - 1) :
           AllocStep(MemoryRequirements(1, 0, 2 ^ i), mem_type, "ok")

NextNew == AllocNew \/ Free \/ Destroy

SpecNew == InitNew /\ [][NextNew]_vars

\* ------------------------------------------------------------ padding, alone

\* A call of padding: its arguments and, once it has returned, its result.
PaddingCall(addr, alignment, result) ==
    [op |-> "padding", addr |-> addr, alignment |-> alignment, result |-> result]

\* No allocator exists; padding is about to be called on some address and
\* alignment, powers of two or not.
InitPadding ==
    /\ mem_types = <<>>
    /\ vk_alloc = None
    /\ device = <<>>
    /\ blocks = <<>>
    /\ frame_queue = None
    /\ \E addr \in 0..MaxPadAddr, alignment \in 0..MaxPadAlign :
           last = PaddingCall(addr, alignment, None)

\* padding returns.
PaddingStep ==
    /\ last.op = "padding" /\ last.result = None
    /\ last' = [last EXCEPT !.result = Some(padding(last.addr, last.alignment))]
    /\ UNCHANGED <<mem_types, vk_alloc, device, blocks, frame_queue>>

NextPadding == PaddingStep

SpecPadding == InitPadding /\ [][NextPadding]_vars

\* ------------------------------------------------------------ FrameQueue

\* The vk::Image handle of the i-th image (from 0) of the swapchain.
Image(i) == [handle |-> "VkImage", of_swapchain_idx |-> i]

\* FrameQueue: the swapchain's images, the number of sync sets
\* (frames_in_flight) and the index of the next frame.
FrameQueue(swap_images, sync_sets, frame_idx) ==
    [swap_images |-> swap_images, sync_sets |-> sync_sets, frame_idx |-> frame_idx]

FrameInfo(frame_idx, swap_image_idx, swap_image) ==
    [frame_idx |-> frame_idx, swap_image_idx |-> swap_image_idx,
     swap_image |-> swap_image]

\* FrameInfo::swap_image_idx
FrameInfo_swap_image_idx(info) == info.swap_image_idx

\* FrameInfo::swap_image
FrameInfo_swap_image(info) == info.swap_image

\* What the platform answers to next_frame's calls.
FrameAnswers == {"ok", "acquire_fails", "suboptimal", "wait_fails", "reset_fails"}

\* FrameQueue::next_frame, when acquire_next_image hands out swap_image_idx:
\* [result |-> Ok(FrameInfo) or Err, frame_queue |-> afterwards]
FrameQueue_next_frame(fq, swap_image_idx, answer) ==
    IF answer = "acquire_fails"
    THEN [result |-> Err("Failed to acquire next swapchain image"), frame_queue |-> fq]
    ELSE IF answer = "suboptimal"
    THEN [result |-> Err("Suboptimal swapchain image. Handle this case!!"), frame_queue |-> fq]
    ELSE IF answer = "wait_fails"
    THEN [result |-> Err("Failed to wait for frame_done fence"), frame_queue |-> fq]
    ELSE IF answer = "reset_fails"
    THEN [result |-> Err("Failed to reset frame_done fence"), frame_queue |-> fq]
    ELSE [result |-> Ok(FrameInfo(fq.frame_idx, swap_image_idx,
                                  fq.swap_images[fq.frame_idx + 1])),
          frame_queue |-> [fq EXCEPT !.frame_idx = (fq.frame_idx + 1) % fq.sync_sets]]

\* FrameQueue::new succeeded: the swapchain has at least frames_in_flight images.
InitFrames ==
    /\ mem_types = <<>>
    /\ vk_alloc = None
    /\ device = <<>>
    /\ blocks = <<>>
    /\ \E frames_in_flight \in 1..MaxFramesInFlight :
           \E num_images \in frames_in_flight..MaxSwapImages :
               frame_queue = Some(FrameQueue([i \in 1..num_images |-> Image(i - 1)],
                                             frames_in_flight, 0))
    /\ last = Call("new", None, Ok("FrameQueue"), 0, FALSE)

\* One call of FrameQueue::next_frame; the swapchain hands out any of its images.
NextFrame ==
    /\ frame_queue # None
    /\ \E swap_image_idx \in 0..(Len(frame_queue.val.swap_images) - 1),
          answer \in FrameAnswers :
           LET r == FrameQueue_next_frame(frame_queue.val, swap_image_idx, answer)
           IN  /\ frame_queue' = Some(r.frame_queue)
               /\ last' = Call("next_frame", None, r.result, 0, FALSE)
    /\ UNCHANGED <<mem_types, vk_alloc, device, blocks>>

\* FrameQueue::destroy
DestroyFrames ==
    /\ frame_queue # None
    /\ frame_queue' = None
    /\ last' = Call("destroy", None, None, 0, FALSE)
    /\ UNCHANGED <<mem_types, vk_alloc, device, blocks>>

NextFrames == NextFrame \/ DestroyFrames

SpecFrames == InitFrames /\ [][NextFrames]_vars

\* ------------------------------------------------------------ properties

\* [a_offset, a_offset + a_size) and [b_offset, b_offset + b_size) share a byte.
Overlap(a_offset, a_size, b_offset, b_size) ==
    /\ a_size > 0 /\ b_size > 0
    /\ a_offset < b_offset + b_size
    /\ b_offset < a_offset + a_size

RegionsOverlap(a, b) == Overlap(a.offset, a.size, b.offset, b.size)

\* The VkMemory a block was carved from, as its source says.
SourceOf(a, block) == Mgr(a, block.source.mem_type).vk_mems[block.source.idx + 1]

\* The blocks callers hold.
HeldBlocks == {blocks[s].val : s \in Held}

\* Every VkMemory of the allocator.
AllVkMems ==
    IF vk_alloc = None THEN {}
    ELSE UNION {{Mgr(vk_alloc.val, t).vk_mems[k] :
                    k \in 1..Len(Mgr(vk_alloc.val, t).vk_mems)} : t \in MemoryType}

\* The size of the backing allocation mem.
ArenaSize(mem) == device[mem].allocation_size

\* C1: no two blocks callers hold of the same VkDeviceMemory have overlapping
\* granted spans [offset, offset + requested size).
C1_GrantedSpansDisjoint ==
    \A s, t \in Held :
        (s # t /\ blocks[s].val.mem = blocks[t].val.mem)
        => ~Overlap(blocks[s].val.region.offset, blocks[s].val.req.size,
                    blocks[t].val.region.offset, blocks[t].val.req.size)

\* C2: no two free regions of one VkMemory overlap.
C2_FreeRegionsDisjoint ==
    \A m \in AllVkMems :
        \A i, j \in 1..Len(m.free_regions) :
            i # j => ~RegionsOverlap(m.free_regions[i], m.free_regions[j])

\* C3: no free region of a VkMemory overlaps the region recorded in a block
\* callers hold of that VkMemory.
C3_FreeDisjointFromHeld ==
    vk_alloc # None =>
        \A b \in HeldBlocks :
            LET m == SourceOf(vk_alloc.val, b)
            IN  \A i \in 1..Len(m.free_regions) :
                    ~RegionsOverlap(m.free_regions[i], b.region)

\* C4: the offset of every block granted for an alignment > 0 is a multiple of
\* that alignment.
C4_OffsetAligned ==
    \A b \in HeldBlocks :
        b.req.alignment > 0 => b.region.offset % b.req.alignment = 0

\* C4 witness: a held block carved from a free region with padding in front of it,
\* next to a held block that is the first of its VkMemory.
C4_Witness ==
    \E b, c \in HeldBlocks :
        /\ b.req.alignment > 0 /\ b.region.offset > 0
        /\ b.region.size > b.req.size
        /\ c.req.alignment > 0 /\ c.region.offset = 0

\* C5: the granted span of every block ends within its backing allocation.
C5_GrantedWithinArena ==
    \A b \in HeldBlocks :
        b.region.offset + b.req.size <= ArenaSize(b.mem)

\* C6: every free region and every region recorded in a held block ends within
\* the backing allocation.
C6_RegionsWithinArena ==
    /\ \A m \in AllVkMems :
           \A i \in 1..Len(m.free_regions) :
               m.free_regions[i].offset + m.free_regions[i].size <= ArenaSize(m.mem)
    /\ \A b \in HeldBlocks :
           b.region.offset + b.region.size <= ArenaSize(b.mem)

\* The free list of the VkMemory at idx (from 0) of the manager of mem_type.
FreeRegionsOf(a, mem_type, idx) == Mgr(a, mem_type).vk_mems[idx + 1].free_regions

\* The number of VkMemory objects of the manager of mem_type.
NumVkMems(a, mem_type) == Len(Mgr(a, mem_type).vk_mems)

\* C7: an alloc that repeats the request (size, alignment, memory type) of the
\* block freed by the call just before it succeeds, and creates no VkMemory.
C7_ReuseCreatesNoVkMemory ==
    [][ (vk_alloc # None /\ vk_alloc' # None /\ last'.op = "alloc" /\ last'.reuse)
        => /\ last'.result.tag = "Ok"
           /\ \A t \in MemoryType :
                  NumVkMems(vk_alloc'.val, t) = NumVkMems(vk_alloc.val, t) ]_vars

\* C7 witness: such an alloc has returned a block, carved behind padding.
C7_Witness ==
    /\ last.op = "alloc" /\ last.reuse /\ last.result.tag = "Ok"
    /\ last.result.val.region.size > last.result.val.req.size

\* Index of the first region of free_regions with offset >= addr, 0 when none.
FirstAtOrAfter(free_regions, addr) ==
    IF \E i \in 1..Len(free_regions) : free_regions[i].offset >= addr
    THEN CHOOSE i \in 1..Len(free_regions) :
             /\ free_regions[i].offset >= addr
             /\ \A j \in 1..(i - 1) : free_regions[j].offset < addr
    ELSE 0

\* C8: free of a region R whose end is the offset of the first free region F with
\* F.offset >= R.end keeps the length of the free list and turns F into
\* (R.offset, R.size + F.size).
C8_ForwardMerge ==
    [][ (vk_alloc # None /\ vk_alloc' # None /\ last'.op = "free")
        => LET b == last'.block.val
               R == b.region
               before == FreeRegionsOf(vk_alloc.val, b.source.mem_type, b.source.idx)
               after == FreeRegionsOf(vk_alloc'.val, b.source.mem_type, b.source.idx)
               i == FirstAtOrAfter(before, R.offset + R.size)
           IN  (i # 0 /\ before[i].offset = R.offset + R.size)
               => /\ Len(after) = Len(before)
                  /\ after[i] = MemoryRegion(R.offset, R.size + before[i].size)
                  /\ \A j \in 1..Len(before) : j # i => after[j] = before[j] ]_vars

\* C8 witness: the block just freed lies at the start of a larger free region.
C8_Witness ==
    /\ vk_alloc # None /\ last.op = "free"
    /\ LET b == last.block.val
           free_regions == FreeRegionsOf(vk_alloc.val, b.source.mem_type, b.source.idx)
       IN  \E i \in 1..Len(free_regions) :
               /\ free_regions[i].offset = b.region.offset
               /\ free_regions[i].size > b.region.size

\* C9: free of a region R that starts where a free region P ends leaves P as it
\* was, and holds R's bytes in another entry, which starts where P ends.
C9_NoBackwardMerge ==
    [][ (vk_alloc # None /\ vk_alloc' # None /\ last'.op = "free")
        => LET b == last'.block.val
               R == b.region
               before == FreeRegionsOf(vk_alloc.val, b.source.mem_type, b.source.idx)
               after == FreeRegionsOf(vk_alloc'.val, b.source.mem_type, b.source.idx)
           IN  \A j \in 1..Len(before) :
                   before[j].offset + before[j].size = R.offset
                   => \E j2 \in {j, j + 1} \cap (1..Len(after)) :
                          /\ after[j2] = before[j]
                          /\ \E m \in (1..Len(after)) \ {j2} :
                                 /\ after[m].offset = R.offset
                                 /\ after[m].size >= R.size ]_vars

\* C9 witness: after a free, a free region ends where the freed region starts
\* and another entry starts there.
C9_Witness ==
    /\ vk_alloc # None /\ last.op = "free"
    /\ LET b == last.block.val
           free_regions == FreeRegionsOf(vk_alloc.val, b.source.mem_type, b.source.idx)
       IN  \E j, m \in 1..Len(free_regions) :
               /\ j # m
               /\ free_regions[j].offset + free_regions[j].size = b.region.offset
               /\ free_regions[m].offset = b.region.offset

\* C10: the free list of a VkMemory created for a request of size s is empty when
\* s >= min_vk_mem_size, and otherwise the one region (s, min_vk_mem_size - s).
C10_InitialFreeRegions ==
    [][ (vk_alloc # None /\ vk_alloc' # None)
        => \A t \in MemoryType :
               NumVkMems(vk_alloc'.val, t) = NumVkMems(vk_alloc.val, t) + 1
               => LET s == last'.result.val.req.size
                      min == Mgr(vk_alloc.val, t).min_vk_mem_size
                      new == FreeRegionsOf(vk_alloc'.val, t, NumVkMems(vk_alloc.val, t))
                  IN  /\ last'.result.val.region = MemoryRegion(0, s)
                      /\ new = IF s >= min THEN <<>>
                               ELSE <<MemoryRegion(s, min - s)>> ]_vars

\* C10 witness: the last alloc created a second VkMemory of its manager for a
\* request of at least the minimum size; the first was created for a smaller one.
C10_Witness ==
    /\ vk_alloc # None /\ last.op = "alloc" /\ last.result.tag = "Ok"
    /\ last.attempts = 1
    /\ LET b == last.result.val
           mgr == Mgr(vk_alloc.val, b.source.mem_type)
       IN  /\ b.source.idx = 1
           /\ b.req.size >= mgr.min_vk_mem_size
           /\ mgr.vk_mems[2].free_regions = <<>>
           /\ device[mgr.vk_mems[1].mem].allocation_size = mgr.min_vk_mem_size

\* Every request Alloc can draw for mem_type.
Requests(mem_type) ==
    {MemoryRequirements(size, alignment, bits) :
        size \in ReqSizes(mem_type), alignment \in Alignments, bits \in MemoryTypeBits}

\* C11: in every state, alloc of a request whose memory_type_bits lacks the bit of
\* the selected manager's mem_type_idx returns an error, calls allocate_memory
\* zero times, and leaves the allocator (both managers: every VkMemory, every
\* free list) and the device as they were, whatever the platform would answer.
C11_IncompatibleTypeRejected ==
    vk_alloc # None =>
        \A mem_type \in MemoryType :
            \A req \in Requests(mem_type) :
                ~BitSet(req.memory_type_bits, Mgr(vk_alloc.val, mem_type).mem_type_idx)
                => \A alloc_ok, map_ok \in BOOLEAN :
                       LET r == VkAllocator_alloc(vk_alloc.val, device, req, mem_type,
                                                  alloc_ok, map_ok)
                       IN  /\ r.result.tag = "Err"
                           /\ r.alloc = vk_alloc.val
                           /\ r.device = device
                           /\ r.attempts = 0

\* C11 witness: the last alloc was rejected for its memory type while both
\* managers had a VkMemory with free regions.
C11_Witness ==
    /\ vk_alloc # None /\ last.op = "alloc"
    /\ last.result = Err("This allocation cannot be done in this memory")
    /\ last.attempts = 0
    /\ \A t \in MemoryType :
           /\ NumVkMems(vk_alloc.val, t) > 0
           /\ FreeRegionsOf(vk_alloc.val, t, 0) # <<>>

\* The indices (from 0) of the memory types of the table whose flags are props.
ExactMatches(props) == {i - 1 : i \in {j \in 1..Len(mem_types) : mem_types[j] = props}}

\* The flags new looks for, by manager.
DesiredFlags(mem_type) ==
    IF mem_type = "Device" THEN DEVICE_LOCAL
    ELSE HOST_VISIBLE \cup HOST_CACHED \cup HOST_COHERENT

\* C12: when no memory type of the table has flags equal to DEVICE_LOCAL, or none
\* has flags equal to HOST_VISIBLE|HOST_CACHED|HOST_COHERENT, new returns an
\* error and no allocator exists, whatever supersets of those flags the table has.
C12_NoExactMatchFails ==
    (\E t \in MemoryType : ExactMatches(DesiredFlags(t)) = {})
    => /\ VkAllocator_new(mem_types).tag = "Err"
       /\ vk_alloc = None
       /\ last.op = "new" /\ last.result.tag = "Err"

\* C12 witness: new failed on a table that has the exact host flags and a strict
\* superset of DEVICE_LOCAL, but no type that is exactly DEVICE_LOCAL.
C12_Witness ==
    /\ last.op = "new" /\ last.result.tag = "Err" /\ vk_alloc = None
    /\ ExactMatches(DesiredFlags("Device")) = {}
    /\ ExactMatches(DesiredFlags("Host")) # {}
    /\ \E i \in 1..Len(mem_types) :
           DEVICE_LOCAL \subseteq mem_types[i] /\ mem_types[i] # DEVICE_LOCAL

\* C13: while the allocator exists, after new and after every alloc and free, each
\* manager's mem_type_idx is the lowest index of the table whose flags equal the
\* flags desired for that manager.
C13_BoundToLowestExactIndex ==
    vk_alloc # None =>
        \A t \in MemoryType :
            /\ ExactMatches(DesiredFlags(t)) # {}
            /\ Mgr(vk_alloc.val, t).mem_type_idx = Min(ExactMatches(DesiredFlags(t)))

\* C13 witness: the table has two types with the flags of one manager, the lower
\* of them behind a type with other flags; blocks were granted in both managers
\* and the last call freed one.
C13_Witness ==
    /\ vk_alloc # None /\ last.op = "free"
    /\ \A t \in MemoryType : NumVkMems(vk_alloc.val, t) > 0
    /\ \E t \in MemoryType :
           /\ Cardinality(ExactMatches(DesiredFlags(t))) > 1
           /\ Min(ExactMatches(DesiredFlags(t))) > 0

\* size + padding(region.offset, alignment) <= region.size
Fits(region, req) == req.size + padding(region.offset, req.alignment) <= region.size

\* C14: an alloc served by an existing VkMemory takes the free region with the
\* lowest list index i that the request fits in: the block starts at that
\* region's offset plus padding, the region is removed (exact fit) or shrunk from
\* its front by size + padding, and every other free region is unchanged.
C14_FirstFit ==
    [][ (vk_alloc # None /\ vk_alloc' # None /\ last'.op = "alloc"
         /\ last'.result.tag = "Ok" /\ last'.attempts = 0)
        => LET b == last'.result.val
               before == FreeRegionsOf(vk_alloc.val, b.source.mem_type, b.source.idx)
               after == FreeRegionsOf(vk_alloc'.val, b.source.mem_type, b.source.idx)
               i == CHOOSE k \in 1..Len(before) :
                        /\ Fits(before[k], b.req)
                        /\ \A j \in 1..(k - 1) : ~Fits(before[j], b.req)
               padded_size == b.req.size + padding(before[i].offset, b.req.alignment)
           IN  /\ \E k \in 1..Len(before) : Fits(before[k], b.req)
               /\ b.region.offset = before[i].offset + padding(before[i].offset, b.req.alignment)
               /\ \A j \in 1..(i - 1) : after[j] = before[j]
               /\ IF padded_size = before[i].size
                  THEN /\ Len(after) = Len(before) - 1
                       /\ \A j \in i..Len(after) : after[j] = before[j + 1]
                  ELSE /\ Len(after) = Len(before)
                       /\ after[i] = MemoryRegion(before[i].offset + padded_size,
                                                  before[i].size - padded_size)
                       /\ \A j \in (i + 1)..Len(after) : after[j] = before[j] ]_vars

\* C14 witness: the last alloc carved its block from the front of a free region
\* although a later free region of the list, smaller than that one was, also fits
\* the request.
C14_Witness ==
    /\ vk_alloc # None /\ last.op = "alloc" /\ last.result.tag = "Ok"
    /\ last.attempts = 0
    /\ LET b == last.result.val
           free_regions == FreeRegionsOf(vk_alloc.val, b.source.mem_type, b.source.idx)
       IN  \E i, j \in 1..Len(free_regions) :
               /\ i < j
               /\ free_regions[i].offset = b.region.offset + b.req.size
               /\ Fits(free_regions[j], b.req)
               /\ free_regions[j].size < free_regions[i].size + b.region.size

\* VkMemory::alloc on vk_mem succeeds: the request fits in one of its free regions.
CanServe(vk_mem, req) ==
    \E i \in 1..Len(vk_mem.free_regions) : Fits(vk_mem.free_regions[i], req)

\* C15: in every state and for every request its manager accepts, whatever the
\* platform would answer, VkMemoryManager::alloc returns the
\* block of the lowest-index VkMemory whose alloc succeeds, leaving the other
\* VkMemory objects and the device as they were; it calls allocate_memory, once,
\* and may add a VkMemory, only when no existing VkMemory can serve the request.
C15_FirstVkMemoryInOrder ==
    vk_alloc # None =>
        \A t \in MemoryType :
            \A req \in {q \in Requests(t) :
                            BitSet(q.memory_type_bits, Mgr(vk_alloc.val, t).mem_type_idx)} :
                \A alloc_ok, map_ok \in BOOLEAN :
                    LET mgr == Mgr(vk_alloc.val, t)
                        r == VkMemoryManager_alloc(mgr, device, req, alloc_ok, map_ok)
                        servers == {k \in 1..Len(mgr.vk_mems) : CanServe(mgr.vk_mems[k], req)}
                    IN  IF servers # {}
                        THEN /\ r.result.tag = "Ok"
                             /\ r.result.val.source.idx = Min(servers) - 1
                             /\ r.result.val.mem = mgr.vk_mems[Min(servers)].mem
                             /\ r.attempts = 0
                             /\ r.device = device
                             /\ Len(r.mgr.vk_mems) = Len(mgr.vk_mems)
                             /\ \A k \in 1..Len(mgr.vk_mems) :
                                    k # Min(servers) => r.mgr.vk_mems[k] = mgr.vk_mems[k]
                        ELSE /\ r.attempts = 1
                             /\ Len(r.device) <= Len(device) + 1
                             /\ Len(r.mgr.vk_mems) <= Len(mgr.vk_mems) + 1

\* C15 witness: the last alloc was served by the first VkMemory of a manager
\* whose second VkMemory could also have served it.
C15_Witness ==
    /\ vk_alloc # None /\ last.op = "alloc" /\ last.result.tag = "Ok"
    /\ last.attempts = 0
    /\ LET b == last.result.val
           mgr == Mgr(vk_alloc.val, b.source.mem_type)
       IN  /\ b.source.idx = 0
           /\ Len(mgr.vk_mems) = 2
           /\ CanServe(mgr.vk_mems[2], b.req)

\* The manager bound to memory type index idx.
MemTypeOfIdx(a, idx) == CHOOSE t \in MemoryType : Mgr(a, t).mem_type_idx = idx

\* C16: an alloc step in which allocate_memory succeeded (the device has one more
\* allocation) and, for the host manager, map_memory succeeded too, returns a
\* block: the manager has exactly one more VkMemory, appended behind the others,
\* backed by the new allocation of size max(req.size, min_vk_mem_size); the block
\* is at offset 0 of it; the other manager is unchanged.
C16_NewVkMemoryServes ==
    [][ (vk_alloc # None /\ vk_alloc' # None /\ Len(device') = Len(device) + 1)
        => LET mem == Len(device')
               t == MemTypeOfIdx(vk_alloc.val, device'[mem].memory_type_index)
               mgr == Mgr(vk_alloc.val, t)
               mgr2 == Mgr(vk_alloc'.val, t)
               b == last'.result.val
           IN  (device'[mem].mapped \/ ~mgr.should_map)
               => /\ last'.op = "alloc" /\ last'.result.tag = "Ok"
                  /\ last'.attempts = 1
                  /\ Len(mgr2.vk_mems) = Len(mgr.vk_mems) + 1
                  /\ SubSeq(mgr2.vk_mems, 1, Len(mgr.vk_mems)) = mgr.vk_mems
                  /\ mgr2.vk_mems[Len(mgr2.vk_mems)].mem = mem
                  /\ device'[mem].allocation_size =
                         (IF b.req.size >= mgr.min_vk_mem_size
                          THEN b.req.size ELSE mgr.min_vk_mem_size)
                  /\ b.mem = mem
                  /\ b.region.offset = 0
                  /\ b.source = BlockSource(t, Len(mgr.vk_mems))
                  /\ \A u \in MemoryType \ {t} :
                         Mgr(vk_alloc'.val, u) = Mgr(vk_alloc.val, u) ]_vars

\* C16 witness: the last alloc found no room in the one VkMemory of the host
\* manager, which has free regions, and got offset 0 of a new mapped allocation
\* of the minimum size.
C16_Witness ==
    /\ vk_alloc # None /\ last.op = "alloc" /\ last.result.tag = "Ok"
    /\ last.attempts = 1
    /\ LET b == last.result.val
           mgr == Mgr(vk_alloc.val, b.source.mem_type)
       IN  /\ mgr.should_map
           /\ b.source.idx = 1 /\ b.region.offset = 0
           /\ mgr.vk_mems[1].free_regions # <<>>
           /\ b.req.size < mgr.min_vk_mem_size
           /\ device[b.mem].mapped
           /\ device[b.mem].allocation_size = mgr.min_vk_mem_size

\* C17: while the allocator exists, no step lowers the number of VkMemory objects
\* of a manager, and every VkMemory stays at its index with its backing
\* allocation, which keeps its size and is not released.
C17_VkMemoryNeverRemoved ==
    [][ (vk_alloc # None /\ vk_alloc' # None)
        => /\ \A t \in MemoryType :
                  /\ NumVkMems(vk_alloc'.val, t) >= NumVkMems(vk_alloc.val, t)
                  /\ \A k \in 1..NumVkMems(vk_alloc.val, t) :
                         /\ Mgr(vk_alloc'.val, t).vk_mems[k].mem = Mgr(vk_alloc.val, t).vk_mems[k].mem
                         /\ Mgr(vk_alloc'.val, t).vk_mems[k].base_ptr
                                = Mgr(vk_alloc.val, t).vk_mems[k].base_ptr
           /\ Len(device') >= Len(device)
           /\ \A h \in 1..Len(device) : device'[h] = device[h] /\ device[h].freed = 0 ]_vars

\* C17 witness: the last call freed the only block callers held of the second
\* VkMemory of a manager, which is still the second VkMemory of that manager.
C17_Witness ==
    /\ vk_alloc # None /\ last.op = "free"
    /\ LET b == last.block.val
           mgr == Mgr(vk_alloc.val, b.source.mem_type)
       IN  /\ b.source.idx = 1
           /\ Len(mgr.vk_mems) = 2
           /\ mgr.vk_mems[2].mem = b.mem
           /\ device[b.mem].freed = 0
           /\ \A c \in HeldBlocks : c.mem # b.mem

\* C18: a free step changes the free list of the VkMemory at block.source.idx of
\* the manager of block.source.mem_type, and nothing else: that VkMemory keeps
\* its allocation and pointer, the manager keeps its other VkMemory objects and
\* its fields, the other manager and the device are unchanged.
C18_FreeTouchesOneFreeList ==
    [][ (vk_alloc # None /\ vk_alloc' # None /\ last'.op = "free")
        => LET b == last'.block.val
               t == b.source.mem_type
               k == b.source.idx + 1
               mgr == Mgr(vk_alloc.val, t)
               mgr2 == Mgr(vk_alloc'.val, t)
           IN  /\ \A u \in MemoryType \ {t} : Mgr(vk_alloc'.val, u) = Mgr(vk_alloc.val, u)
               /\ mgr2 = [mgr EXCEPT !.vk_mems = mgr2.vk_mems]
               /\ Len(mgr2.vk_mems) = Len(mgr.vk_mems)
               /\ \A j \in 1..Len(mgr.vk_mems) : j # k => mgr2.vk_mems[j] = mgr.vk_mems[j]
               /\ mgr2.vk_mems[k] = [mgr.vk_mems[k] EXCEPT
                                        !.free_regions = mgr2.vk_mems[k].free_regions]
               /\ mgr2.vk_mems[k].free_regions # mgr.vk_mems[k].free_regions
               /\ device' = device ]_vars

\* C18 witness: the last call freed a block of the second VkMemory of a manager
\* whose first VkMemory has a free region that starts where the block's region
\* ends; the block's bytes are in the second VkMemory's free list.
C18_Witness ==
    /\ vk_alloc # None /\ last.op = "free"
    /\ LET b == last.block.val
           mgr == Mgr(vk_alloc.val, b.source.mem_type)
       IN  /\ b.source.idx = 1
           /\ Len(mgr.vk_mems) = 2
           /\ \E i \in 1..Len(mgr.vk_mems[1].free_regions) :
                  mgr.vk_mems[1].free_regions[i].offset = b.region.offset + b.region.size
           /\ \E i \in 1..Len(mgr.vk_mems[2].free_regions) :
                  mgr.vk_mems[2].free_regions[i].offset = b.region.offset

\* C19: in every state, for every request its manager accepts and no VkMemory
\* can serve, VkMemoryManager::alloc with allocate_memory failing returns an
\* error after one call of allocate_memory and leaves the manager (its vk_mems,
\* every free list) and the device as they were.
C19_AllocationFailureLeavesPool ==
    vk_alloc # None =>
        \A t \in MemoryType :
            \A req \in {q \in Requests(t) :
                            BitSet(q.memory_type_bits, Mgr(vk_alloc.val, t).mem_type_idx)} :
                LET mgr == Mgr(vk_alloc.val, t)
                IN  (\A k \in 1..Len(mgr.vk_mems) : ~CanServe(mgr.vk_mems[k], req))
                    => \A map_ok \in BOOLEAN :
                           LET r == VkMemoryManager_alloc(mgr, device, req, FALSE, map_ok)
                           IN  /\ r.result.tag = "Err"
                               /\ r.attempts = 1
                               /\ r.mgr = mgr
                               /\ r.device = device

\* C19 witness: the last alloc failed in allocate_memory, called once, while
\* callers hold blocks and a VkMemory with free regions exists.
C19_Witness ==
    /\ vk_alloc # None /\ last.op = "alloc"
    /\ last.result = Err("Failed to allocate VkMemory")
    /\ last.attempts = 1
    /\ Held # {}
    /\ \E m \in AllVkMems : m.free_regions # <<>>

\* C20: after destroy, every VkDeviceMemory that allocate_memory created for
\* either manager, the ones whose map_memory failed included, has been passed to
\* free_memory exactly once.
C20_DestroyReleasesEveryAllocation ==
    last.op = "destroy" => \A h \in 1..Len(device) : device[h].freed = 1

\* C21: the pointer of every block callers hold of a mapped VkMemory is that
\* VkMemory's base pointer advanced by the block's offset().
C21_PtrIsBasePlusOffset ==
    vk_alloc # None =>
        \A b \in HeldBlocks :
            LET m == SourceOf(vk_alloc.val, b)
            IN  m.base_ptr # None
                => /\ MemoryBlock_ptr(b) # None
                   /\ MemoryBlock_ptr(b).val.mem = m.base_ptr.val.mem
                   /\ MemoryBlock_ptr(b).val.addr
                          = m.base_ptr.val.addr + MemoryBlock_offset(b)

\* C21 witness: callers hold two blocks of one mapped VkMemory, the first block
\* of it and one carved from a free region behind padding.
C21_Witness ==
    /\ vk_alloc # None
    /\ \E b, c \in HeldBlocks :
           /\ b.mem = c.mem
           /\ SourceOf(vk_alloc.val, b).base_ptr # None
           /\ MemoryBlock_offset(b) = 0
           /\ MemoryBlock_offset(c) > 0
           /\ padding(MemoryBlock_offset(c) - 1, c.req.alignment) = 1
           /\ c.region.size = c.req.size + 1

\* C22: padding(addr, alignment) is 0 when alignment is 0; otherwise it is the
\* smallest p in 0..alignment-1 with (addr + p) mod alignment = 0, which is
\* (alignment - addr mod alignment) mod alignment.
C22_PaddingIsSmallestAligning ==
    (last.op = "padding" /\ last.result # None)
    => LET p == last.result.val
           addr == last.addr
           alignment == last.alignment
       IN  IF alignment = 0 THEN p = 0
           ELSE /\ 0 <= p /\ p < alignment
                /\ (addr + p) % alignment = 0
                /\ \A q \in 0..(p - 1) : (addr + q) % alignment # 0
                /\ p = (alignment - (addr % alignment)) % alignment

\* C22 witness: padding returned for an aligned address, and the alignment is
\* neither 0 nor 1.
C22_Witness ==
    /\ last.op = "padding" /\ last.result # None
    /\ last.alignment > 1 /\ last.addr > 0
    /\ last.addr % last.alignment = 0
    /\ last.result.val = 0

\* The end address of a region.
EndOf(region) == region.offset + region.size

\* C23: when an alloc is served from free region i of a VkMemory, with
\* c = req.size + padding(region.offset, req.alignment): if c is the region's
\* size, the free list afterwards is the list without entry i, one entry
\* shorter; otherwise it has the same length and entry i is
\* (offset + c, size - c), which ends where the region ended.
C23_RegionRemovedOrShrunk ==
    [][ (vk_alloc # None /\ vk_alloc' # None /\ last'.op = "alloc"
         /\ last'.result.tag = "Ok" /\ last'.attempts = 0)
        => LET b == last'.result.val
               before == FreeRegionsOf(vk_alloc.val, b.source.mem_type, b.source.idx)
               after == FreeRegionsOf(vk_alloc'.val, b.source.mem_type, b.source.idx)
               taken == {k \in 1..Len(before) :
                            before[k].offset + padding(before[k].offset, b.req.alignment)
                                = MemoryBlock_offset(b)
                            /\ Fits(before[k], b.req)}
           IN  \E i \in taken :
                   LET c == b.req.size + padding(before[i].offset, b.req.alignment)
                   IN  IF c = before[i].size
                       THEN /\ Len(after) = Len(before) - 1
                            /\ after = SubSeq(before, 1, i - 1)
                                          \o SubSeq(before, i + 1, Len(before))
                       ELSE /\ Len(after) = Len(before)
                            /\ after[i] = MemoryRegion(before[i].offset + c,
                                                       before[i].size - c)
                            /\ EndOf(after[i]) = EndOf(before[i]) ]_vars

\* C23 witness: the last alloc was served by an existing VkMemory behind
\* padding and took a whole free region: no free region starts where the
\* consumed span ends.
C23_Witness ==
    /\ vk_alloc # None /\ last.op = "alloc" /\ last.result.tag = "Ok"
    /\ last.attempts = 0
    /\ LET b == last.result.val
           free_regions == FreeRegionsOf(vk_alloc.val, b.source.mem_type, b.source.idx)
       IN  /\ b.region.size > b.req.size
           /\ \A i \in 1..Len(free_regions) :
                  free_regions[i].offset # MemoryBlock_offset(b) + b.req.size
           /\ free_regions # <<>>

\* C24: the free list of every VkMemory is sorted by offset, ascending.
C24_FreeListSorted ==
    \A m \in AllVkMems :
        \A i, j \in 1..Len(m.free_regions) :
            i < j => m.free_regions[i].offset <= m.free_regions[j].offset

\* C25: the block of an alloc served from a free region at offset o of an
\* existing VkMemory, with p = padding(o, req.alignment), records the region
\* (o + p, req.size + p).
C25_RecordedSizeInflated ==
    [][ (vk_alloc # None /\ vk_alloc' # None /\ last'.op = "alloc"
         /\ last'.result.tag = "Ok" /\ last'.attempts = 0)
        => LET b == last'.result.val
               before == FreeRegionsOf(vk_alloc.val, b.source.mem_type, b.source.idx)
           IN  \E k \in 1..Len(before) :
                   LET o == before[k].offset
                       p == padding(o, b.req.alignment)
                   IN  /\ Fits(before[k], b.req)
                       /\ \A j \in 1..(k - 1) : ~Fits(before[j], b.req)
                       /\ b.region = MemoryRegion(o + p, b.req.size + p) ]_vars

\* C25 witness: the last alloc was served behind padding; the region its block
\* records is larger than the request and reaches into the free region that
\* starts behind the granted bytes.
C25_Witness ==
    /\ vk_alloc # None /\ last.op = "alloc" /\ last.result.tag = "Ok"
    /\ last.attempts = 0
    /\ LET b == last.result.val
           free_regions == FreeRegionsOf(vk_alloc.val, b.source.mem_type, b.source.idx)
       IN  /\ b.region.size > b.req.size
           /\ \E i \in 1..Len(free_regions) :
                  /\ free_regions[i].offset = MemoryBlock_offset(b) + b.req.size
                  /\ free_regions[i].offset < EndOf(b.region)

\* C26: for every block callers hold, the manager of the block's
\* source.mem_type has a VkMemory at source.idx, and that VkMemory's
\* VkDeviceMemory is the block's mem.
C26_SourceOwnsBlockMem ==
    vk_alloc # None =>
        \A b \in HeldBlocks :
            /\ b.source.idx < NumVkMems(vk_alloc.val, b.source.mem_type)
            /\ SourceOf(vk_alloc.val, b).mem = b.mem
            /\ device[b.mem].memory_type_index
                   = Mgr(vk_alloc.val, b.source.mem_type).mem_type_idx

\* C26 witness: the last call freed a block of the second VkMemory of a manager,
\* into the VkMemory of the block's mem, while callers hold a block of the
\* first VkMemory of that manager.
C26_Witness ==
    /\ vk_alloc # None /\ last.op = "free"
    /\ LET f == last.block.val
       IN  /\ f.source.idx = 1
           /\ SourceOf(vk_alloc.val, f).mem = f.mem
           /\ \E i \in 1..Len(SourceOf(vk_alloc.val, f).free_regions) :
                  SourceOf(vk_alloc.val, f).free_regions[i].offset = f.region.offset
           /\ \E b \in HeldBlocks :
                  /\ b.source = BlockSource(f.source.mem_type, 0)
                  /\ b.mem # f.mem

\* The sum of the sizes of the regions of a list.
RECURSIVE SumSizes(_)
SumSizes(regions) ==
    IF regions = <<>> THEN 0 ELSE Head(regions).size + SumSizes(Tail(regions))

\* The sum of the recorded region sizes of the blocks callers hold of mem,
\* among the first n blocks granted.
RECURSIVE HeldSizes(_, _)
HeldSizes(mem, n) ==
    IF n = 0 THEN 0
    ELSE HeldSizes(mem, n - 1)
            + (IF blocks[n] # None /\ blocks[n].val.mem = mem
               THEN blocks[n].val.region.size ELSE 0)

\* C27: for every VkMemory, the sizes of its free regions plus the recorded
\* region sizes of the blocks callers hold of it add up to the size of its
\* backing allocation.
C27_BytesConserved ==
    \A m \in AllVkMems :
        SumSizes(m.free_regions) + HeldSizes(m.mem, Len(blocks)) = ArenaSize(m.mem)

\* C27 witness: after a free, a VkMemory has two free regions or more and callers
\* hold a block of it that was carved behind padding.
C27_Witness ==
    /\ last.op = "free"
    /\ \E m \in AllVkMems :
           /\ Len(m.free_regions) >= 2
           /\ m.mem = last.block.val.mem
           /\ \E b \in HeldBlocks : b.mem = m.mem /\ b.region.size > b.req.size

\* C28: the free regions of a VkMemory of which callers hold no block cover
\* every byte of [0, size of the backing allocation) exactly once: they lie
\* within it, no two of them overlap, and their sizes add up to its size.
C28_AllFreedCoversArena ==
    \A m \in AllVkMems :
        (\A b \in HeldBlocks : b.mem # m.mem)
        => /\ \A i \in 1..Len(m.free_regions) :
                  EndOf(m.free_regions[i]) <= ArenaSize(m.mem)
           /\ \A i, j \in 1..Len(m.free_regions) :
                  i # j => ~RegionsOverlap(m.free_regions[i], m.free_regions[j])
           /\ SumSizes(m.free_regions) = ArenaSize(m.mem)

\* C29: a block callers hold has a pointer if and only if its memory type is
\* Host.
C29_PtrIffHost ==
    \A b \in HeldBlocks :
        (MemoryBlock_ptr(b) # None) <=> (b.source.mem_type = "Host")

\* C29 witness: callers hold the first block of a host VkMemory and a block
\* carved from its free region, both with a pointer, and a device block
\* without one.
C29_Witness ==
    \E b, c, d \in HeldBlocks :
        /\ b.source.mem_type = "Host" /\ c.source.mem_type = "Host"
        /\ b.mem = c.mem
        /\ b.region.offset = 0 /\ c.region.offset > 0
        /\ MemoryBlock_ptr(b) # None /\ MemoryBlock_ptr(c) # None
        /\ d.source.mem_type = "Device"
        /\ MemoryBlock_ptr(d) = None

\* C30: the swap_image() of every FrameInfo returned by next_frame is the image
\* the FrameQueue stores at the FrameInfo's swap_image_idx(), the index
\* acquire_next_image returned.
C30_SwapImageIsAcquiredImage ==
    (frame_queue # None /\ last.op = "next_frame" /\ last.result.tag = "Ok")
    => FrameInfo_swap_image(last.result.val)
          = frame_queue.val.swap_images[FrameInfo_swap_image_idx(last.result.val) + 1]

====
